---- MODULE Spec2Model ----
(***************************************************************************)
(* State-machine model of the settings view (tab registry, tab router,     *)
(* message dispatch, compact-mode observer) and of the welcome view's      *)
(* remote calls, from webview-ui/src/components/welcome/WelcomeView.tsx.   *)
(***************************************************************************)
EXTENDS Integers, Sequences, FiniteSets, TLC

VARIABLES
    isDev,            \* IS_DEV, read once from process.env at module load
    mounted,          \* whether a SettingsView instance is mounted
    targetSection,    \* the targetSection prop ("" = undefined)
    activeTab,        \* useState activeTab
    isCompactMode,    \* useState isCompactMode
    debounceTimers,   \* pending trailing calls of checkCompactMode, one per debounced function,
                      \* in the order they expire (live: of the mounted instance)
    frames,           \* callbacks queued with requestAnimationFrame (their tabId)
    timers,           \* pending highlight setTimeout callbacks (the node each holds)
    elements,         \* the anchor nodes created so far: their id and backgroundColor
    anchors,          \* the nodes currently in the document (indices of elements)
    scrolled,         \* node last passed to scrollIntoView (0 = none)
    showApiOptions,   \* WelcomeView useState showApiOptions
    apiErrorMessage,  \* WelcomeView useState apiErrorMessage ("" = undefined)
    calls,            \* remote calls in flight (bag: method -> count)
    log,              \* console.error lines written so far
    last              \* the operation performed by the last step

vars == <<isDev, mounted, targetSection, activeTab, isCompactMode,
          debounceTimers, frames, timers, elements, anchors, scrolled,
          showApiOptions, apiErrorMessage, calls, log, last>>

settingsVars == <<mounted, targetSection, activeTab, isCompactMode>>
domVars == <<frames, timers, elements, anchors, scrolled>>
welcomeVars == <<showApiOptions, apiErrorMessage>>
rpcVars == <<calls, log>>

-----------------------------------------------------------------------------
(* Bounds of the model *)

MaxFrames == 2
MaxTimers == 2
MaxCalls == 2
MaxNodes == 2
MaxStale == 2

-----------------------------------------------------------------------------
(* Program constants *)

COMPACT_WIDTH == 500
DEBOUNCE_MS == 100
HIGHLIGHT_MS == 1200

HighlightColor == "var(--vscode-textPreformat-background)"
Transparent == "transparent"

-----------------------------------------------------------------------------
(* Input universes *)

AnchorIds == {"section-x"}
Widths == {480, 500, 600}
TargetSections == {"", "debug", "about", "constructor"}
MessageValues == {"", "api-config", "features", "browser", "terminal", "debug",
                  "general", "about", "section-x", "nowhere"}
Messages ==
    {[type |-> "grpc_response", key |-> "scrollToSettings", value |-> v] :
        v \in MessageValues}
    \cup {[type |-> "state", key |-> "", value |-> ""],
          [type |-> "grpc_response", key |-> "didBecomeVisible", value |-> "about"]}
ApiErrors == {"", "API key is required"}
Methods == {"accountLoginClicked", "setWelcomeViewCompleted", "resetState"}

-----------------------------------------------------------------------------
(* Tab registry *)

Tab(id, key, hidden) == [id |-> id, name |-> key, hidden |-> hidden]

getSettingsTabs(dev) ==
    << Tab("api-config", "settings.tabs.api_configuration", FALSE),
       Tab("features", "settings.tabs.features", FALSE),
       Tab("browser", "settings.tabs.browser", FALSE),
       Tab("terminal", "settings.tabs.terminal", FALSE),
       Tab("debug", "settings.tabs.debug", ~dev),
       Tab("general", "settings.tabs.general", FALSE),
       Tab("about", "settings.tabs.about", FALSE) >>

SETTINGS_TABS == getSettingsTabs(isDev)

\* SETTINGS_TABS.filter((tab) => !tab.hidden), as the ids of the rendered tabs
VisibleTabIds(tabs) == {tabs[i].id : i \in {j \in DOMAIN tabs : ~tabs[j].hidden}}

TAB_CONTENT_MAP ==
    [k \in {"api-config", "general", "features", "browser", "terminal", "about", "debug"} |->
        CASE k = "api-config" -> "ApiConfigurationSection"
          [] k = "general" -> "GeneralSettingsSection"
          [] k = "features" -> "FeatureSettingsSection"
          [] k = "browser" -> "BrowserSettingsSection"
          [] k = "terminal" -> "TerminalSettingsSection"
          [] k = "about" -> "AboutSection"
          [] k = "debug" -> "DebugSection"]

\* TAB_CONTENT_MAP is an object literal: a key it does not own is looked up on
\* Object.prototype, whose members are truthy values.
ObjectPrototypeKeys ==
    {"constructor", "toString", "valueOf", "hasOwnProperty", "isPrototypeOf",
     "propertyIsEnumerable", "toLocaleString", "__proto__",
     "__defineGetter__", "__defineSetter__", "__lookupGetter__", "__lookupSetter__"}

Undefined == "undefined"

\* TAB_CONTENT_MAP[activeTab as keyof typeof TAB_CONTENT_MAP]
ContentLookup(key) ==
    IF key \in DOMAIN TAB_CONTENT_MAP THEN TAB_CONTENT_MAP[key]
    ELSE IF key \in ObjectPrototypeKeys THEN "Object.prototype." \o key
    ELSE Undefined

Null == [type |-> "null", props |-> {}]

\* The element the ActiveContent memo evaluates to
ActiveContent(tab) ==
    LET Component == ContentLookup(tab)
    IN  IF Component = Undefined THEN Null
        ELSE [type |-> Component,
              props |-> {"renderSectionHeader"}
                        \cup (IF tab = "debug" THEN {"onResetState"}
                              ELSE IF tab = "about" THEN {"version"} ELSE {})]

-----------------------------------------------------------------------------
(* Tab router: pure parts of the handlers *)

\* useMemo(() => targetSection || SETTINGS_TABS[0].id)
initialTab(tabs, target) == IF target # "" THEN target ELSE tabs[1].id

\* useEffect on targetSection: if (targetSection) setActiveTab(targetSection)
TargetActiveTab(cur, target) == IF target # "" THEN target ELSE cur

\* handleTabChange that sets the tab it read when it was created
handleTabChangeStale(cur, tabId) == cur

\* handleTabChange
handleTabChange(cur, tabId) == tabId

\* the three early returns of handleMessage
IsScrollToSettings(m) ==
    /\ m.type = "grpc_response"
    /\ m.key = "scrollToSettings"
    /\ m.value # ""

\* a validity check run on the rendered (filtered) tabs only
IsRenderedTabId(tabs, tabId) ==
    \E i \in DOMAIN tabs : tabs[i].id = tabId /\ ~tabs[i].hidden

\* SETTINGS_TABS.some((tab) => tab.id === tabId)
IsValidTabId(tabs, tabId) == \E i \in DOMAIN tabs : tabs[i].id = tabId

\* handleMessage that deselects a tab navigated to while it is already active
MessageActiveTabToggle(tabs, cur, m) ==
    IF IsScrollToSettings(m) /\ IsValidTabId(tabs, m.value)
    THEN (IF cur = m.value THEN tabs[1].id ELSE m.value)
    ELSE cur

\* handleMessage that activates any non-empty target without the registry check
MessageActiveTabUnchecked(tabs, cur, m) ==
    IF IsScrollToSettings(m) THEN m.value ELSE cur

\* handleMessage: the active tab it leaves
MessageActiveTab(tabs, cur, m) ==
    IF IsScrollToSettings(m) /\ IsValidTabId(tabs, m.value) THEN m.value ELSE cur

\* handleMessage without the return after setActiveTab
MessageFramesFallThrough(tabs, fr, m) ==
    IF IsScrollToSettings(m) THEN Append(fr, m.value) ELSE fr

\* handleMessage: the animation-frame queue it leaves
MessageFrames(tabs, fr, m) ==
    IF IsScrollToSettings(m) /\ ~IsValidTabId(tabs, m.value)
    THEN Append(fr, m.value) ELSE fr

\* a node as rendered: no inline background
NewElement(id) == [id |-> id, backgroundColor |-> ""]

\* document.getElementById over the nodes in the document: 0 stands for null
GetElementById(els, doc, id) ==
    IF \E n \in doc : els[n].id = id
    THEN CHOOSE n \in doc : els[n].id = id
    ELSE 0

\* setIsCompactMode(width < 500)
IsCompact(width) == width < COMPACT_WIDTH

\* a debounce that keeps the arguments of the first call of a burst
DebouncedKeepFirst(pending, width) ==
    IF \E i \in DOMAIN pending : pending[i].live THEN pending
    ELSE Append(pending, [live |-> TRUE, wait |-> DEBOUNCE_MS, width |-> width])

\* the pending calls of instances that have unmounted
IsStale(t) == ~t.live

\* debounce(fn, 100): a call replaces the pending trailing call of the
\* mounted instance's checkCompactMode and expires 100 ms from now, after
\* every call that is already pending
Debounced(pending, width) ==
    Append(SelectSeq(pending, IsStale),
           [live |-> TRUE, wait |-> DEBOUNCE_MS, width |-> width])

\* the pending calls once their instance has unmounted: nothing clears them,
\* each stays scheduled with a setter React no longer honours
Orphaned(pending) == [i \in DOMAIN pending |-> [pending[i] EXCEPT !.live = FALSE]]

-----------------------------------------------------------------------------
(* The operation a step performs, recorded in last *)

\* again: the step repeats the previous step's operation on the same input
Op(op, kind, id, width) ==
    [op |-> op, kind |-> kind, id |-> id, width |-> width, node |-> 0,
     again |-> (last.op = op /\ last.kind = kind /\ last.id = id /\ last.width = width)]

MessageKind(m) ==
    IF m.type = "grpc_response" /\ m.key = "scrollToSettings" THEN "navigate" ELSE "other"

\* the same, for a step that acts on a node
OpNode(op, kind, id, width, node) == [Op(op, kind, id, width) EXCEPT !.node = node]

-----------------------------------------------------------------------------
(* Initial state: IS_DEV is fixed, a SettingsView has just mounted with some
   targetSection, and the WelcomeView has rendered once *)

Init ==
    /\ isDev \in BOOLEAN
    /\ mounted = TRUE
    /\ targetSection \in TargetSections
    /\ activeTab = initialTab(getSettingsTabs(isDev), targetSection)
    /\ isCompactMode = TRUE
    /\ debounceTimers = << >>
    /\ frames = << >>
    /\ timers = << >>
    /\ elements \in {<< >>} \cup {<<NewElement(a)>> : a \in AnchorIds}
    /\ anchors = DOMAIN elements
    /\ scrolled = 0
    /\ showApiOptions = FALSE
    /\ apiErrorMessage = ""
    /\ calls = [m \in Methods |-> 0]
    /\ log = << >>
    /\ last = [op |-> "mount", kind |-> "", id |-> targetSection, width |-> 0, node |-> 0,
               again |-> FALSE]

-----------------------------------------------------------------------------
(* SettingsView *)

\* A new instance mounts: useState initial values, then the targetSection effect
Mount(target) ==
    /\ ~mounted
    /\ Len(SelectSeq(debounceTimers, IsStale)) < MaxStale
    /\ mounted' = TRUE
    /\ targetSection' = target
    /\ activeTab' = TargetActiveTab(initialTab(SETTINGS_TABS, target), target)
    /\ isCompactMode' = TRUE
    /\ last' = Op("mount", "", target, 0)
    /\ UNCHANGED <<isDev, debounceTimers, domVars, welcomeVars, rpcVars>>

\* The instance unmounts: the message listener is removed and the effect
\* cleanup runs observer.disconnect(); nothing else is cleaned up
Unmount ==
    /\ mounted
    /\ mounted' = FALSE
    /\ debounceTimers' = Orphaned(debounceTimers)
    /\ last' = Op("unmount", "", "", 0)
    /\ UNCHANGED <<isDev, targetSection, activeTab, isCompactMode,
                   domVars, welcomeVars, rpcVars>>

\* A click on a rendered tab (onClick in compact mode, onValueChange otherwise)
TabClick(tabId) ==
    /\ mounted
    /\ tabId \in VisibleTabIds(SETTINGS_TABS)
    /\ activeTab' = handleTabChange(activeTab, tabId)
    /\ last' = Op("click", "", tabId, 0)
    /\ UNCHANGED <<isDev, mounted, targetSection, isCompactMode,
                   debounceTimers, domVars, welcomeVars, rpcVars>>

\* The parent passes another targetSection: the effect on [targetSection] runs
SetTargetSection(target) ==
    /\ mounted
    /\ target # targetSection
    /\ targetSection' = target
    /\ activeTab' = TargetActiveTab(activeTab, target)
    /\ last' = Op("target", "", target, 0)
    /\ UNCHANGED <<isDev, mounted, isCompactMode,
                   debounceTimers, domVars, welcomeVars, rpcVars>>

\* handleMessage, for a window "message" event while the listener is attached
HandleMessage(m) ==
    /\ mounted
    /\ Len(MessageFrames(SETTINGS_TABS, frames, m)) <= MaxFrames
    /\ activeTab' = MessageActiveTab(SETTINGS_TABS, activeTab, m)
    /\ frames' = MessageFrames(SETTINGS_TABS, frames, m)
    /\ last' = Op("message", MessageKind(m), m.value, 0)
    /\ UNCHANGED <<isDev, mounted, targetSection, isCompactMode,
                   debounceTimers, timers, elements, anchors, scrolled,
                   welcomeVars, rpcVars>>

\* nodes, timers and scroll position the animation-frame callback leaves for
\* the node el it found (0 = null): the closure holds the node, not its id
FrameStyle(els, el) ==
    IF el = 0 THEN els ELSE [els EXCEPT ![el].backgroundColor = HighlightColor]

FrameTimers(tm, el) ==
    IF el = 0 THEN tm ELSE Append(tm, [el |-> el, delay |-> HIGHLIGHT_MS])

FrameScrolled(sc, el) == IF el = 0 THEN sc ELSE el

\* The browser runs the oldest queued animation-frame callback
AnimationFrame ==
    /\ frames # << >>
    /\ LET element == GetElementById(elements, anchors, Head(frames))
       IN  /\ Len(FrameTimers(timers, element)) <= MaxTimers
           /\ elements' = FrameStyle(elements, element)
           /\ timers' = FrameTimers(timers, element)
           /\ scrolled' = FrameScrolled(scrolled, element)
           /\ last' = OpNode("frame", IF element = 0 THEN "miss" ELSE "hit",
                             Head(frames), 0, element)
    /\ frames' = Tail(frames)
    /\ UNCHANGED <<isDev, settingsVars, debounceTimers, anchors, welcomeVars, rpcVars>>

\* a timeout that assigns the highlight colour again
TimeoutStyleKeeps(els, el) == [els EXCEPT ![el].backgroundColor = HighlightColor]

\* the nodes after the highlight timeout of node el, in the document or not
TimeoutStyle(els, el) == [els EXCEPT ![el].backgroundColor = Transparent]

\* The oldest highlight timeout expires
HighlightTimeout ==
    /\ timers # << >>
    /\ elements' = TimeoutStyle(elements, Head(timers).el)
    /\ timers' = Tail(timers)
    /\ last' = OpNode("timeout", "", elements[Head(timers).el].id,
                      Head(timers).delay, Head(timers).el)
    /\ UNCHANGED <<isDev, settingsVars, debounceTimers, frames, anchors, scrolled,
                   welcomeVars, rpcVars>>

\* the document holds a node with this id
InDocument(els, doc, id) == \E n \in doc : els[n].id = id

\* Another component renders an anchor: a new node, with no inline background
RenderAnchor(a) ==
    /\ ~InDocument(elements, anchors, a)
    /\ Len(elements) < MaxNodes
    /\ elements' = Append(elements, NewElement(a))
    /\ anchors' = anchors \cup {Len(elements) + 1}
    /\ last' = OpNode("render", "", a, 0, Len(elements) + 1)
    /\ UNCHANGED <<isDev, settingsVars, debounceTimers, frames, timers,
                   scrolled, welcomeVars, rpcVars>>

\* Another component puts a node it had removed back into the document
AttachAnchor(n) ==
    /\ n \notin anchors
    /\ ~InDocument(elements, anchors, elements[n].id)
    /\ anchors' = anchors \cup {n}
    /\ last' = OpNode("attach", "", elements[n].id, 0, n)
    /\ UNCHANGED <<isDev, settingsVars, debounceTimers, frames, timers, elements,
                   scrolled, welcomeVars, rpcVars>>

\* Another component removes a node from the document
DetachAnchor(n) ==
    /\ n \in anchors
    /\ anchors' = anchors \ {n}
    /\ last' = OpNode("detach", "", elements[n].id, 0, n)
    /\ UNCHANGED <<isDev, settingsVars, debounceTimers, frames, timers, elements,
                   scrolled, welcomeVars, rpcVars>>

\* The ResizeObserver callback: checkCompactMode(entry.contentRect.width)
Observe(width) ==
    /\ mounted
    /\ debounceTimers' = Debounced(debounceTimers, width)
    /\ last' = Op("observe", "", "", width)
    /\ UNCHANGED <<isDev, settingsVars, domVars, welcomeVars, rpcVars>>

\* A pending trailing call runs setIsCompactMode, which React drops when the
\* instance that owns the setter is no longer mounted
DebounceFire ==
    /\ debounceTimers # << >>
    /\ LET t == Head(debounceTimers)
       IN /\ isCompactMode' = IF t.live THEN IsCompact(t.width) ELSE isCompactMode
          /\ last' = Op("debounce", IF t.live THEN "live" ELSE "stale", "", t.width)
    /\ debounceTimers' = Tail(debounceTimers)
    /\ UNCHANGED <<isDev, mounted, targetSection, activeTab, domVars,
                   welcomeVars, rpcVars>>

-----------------------------------------------------------------------------
(* Remote calls: WelcomeView's handleLogin and handleSubmit, SettingsView's
   handleResetState *)

InFlight == calls["accountLoginClicked"] + calls["setWelcomeViewCompleted"]
            + calls["resetState"]

\* the handler issues the call and does nothing else
Issue(cs, method) == [cs EXCEPT ![method] = @ + 1]

\* the call settles: it is no longer in flight, whatever the outcome
Settle(cs, method) == [cs EXCEPT ![method] = @ - 1]

\* .catch / catch: console.error with the handler's own text
FailureText(method) ==
    CASE method = "accountLoginClicked" -> "Failed to get login URL:"
      [] method = "setWelcomeViewCompleted" ->
            "Failed to update API configuration or complete welcome view:"
      [] method = "resetState" -> "Failed to reset state:"

Logged(lg, method) == Append(lg, FailureText(method))

\* a catch clause that issues the call again
Retried(cs, method) == Issue(Settle(cs, method), method)

\* the calls in flight after the catch clause: it logs and issues nothing
Rejected(cs, method) == Settle(cs, method)

CanIssue == InFlight + Len(log) < MaxCalls

\* handleLogin: the "get started" button is always rendered
Login ==
    /\ CanIssue
    /\ calls' = Issue(calls, "accountLoginClicked")
    /\ last' = Op("call", "", "accountLoginClicked", 0)
    /\ UNCHANGED <<isDev, settingsVars, debounceTimers, domVars, welcomeVars, log>>

\* the "use API key" button, rendered while !showApiOptions
ShowApiOptions ==
    /\ ~showApiOptions
    /\ showApiOptions' = ~showApiOptions
    /\ last' = Op("showApiOptions", "", "", 0)
    /\ UNCHANGED <<isDev, settingsVars, debounceTimers, domVars, apiErrorMessage, rpcVars>>

\* the effect on [apiConfiguration, mode]: validateApiConfiguration's answer
ConfigChanged(err) ==
    /\ apiErrorMessage' = err
    /\ last' = Op("validate", "", err, 0)
    /\ UNCHANGED <<isDev, settingsVars, debounceTimers, domVars, showApiOptions, rpcVars>>

\* disableLetsGoButton = apiErrorMessage != null
disableLetsGoButton(err) == err # ""

\* handleSubmit: the "let's go" button is rendered with the API options and
\* enabled while there is no validation error
Submit ==
    /\ showApiOptions
    /\ ~disableLetsGoButton(apiErrorMessage)
    /\ CanIssue
    /\ calls' = Issue(calls, "setWelcomeViewCompleted")
    /\ last' = Op("call", "", "setWelcomeViewCompleted", 0)
    /\ UNCHANGED <<isDev, settingsVars, debounceTimers, domVars, welcomeVars, log>>

\* handleResetState: reachable through the onResetState prop, which only the
\* element rendered for the debug tab receives
ResetState ==
    /\ mounted
    /\ "onResetState" \in ActiveContent(activeTab).props
    /\ CanIssue
    /\ calls' = Issue(calls, "resetState")
    /\ last' = Op("call", "", "resetState", 0)
    /\ UNCHANGED <<isDev, settingsVars, debounceTimers, domVars, welcomeVars, log>>

\* the promise of a call in flight resolves
RpcResolve(method) ==
    /\ calls[method] > 0
    /\ calls' = Settle(calls, method)
    /\ last' = Op("resolve", "", method, 0)
    /\ UNCHANGED <<isDev, settingsVars, debounceTimers, domVars, welcomeVars, log>>

\* the promise of a call in flight rejects: the catch clause logs
RpcReject(method) ==
    /\ calls[method] > 0
    /\ calls' = Rejected(calls, method)
    /\ log' = Logged(log, method)
    /\ last' = Op("reject", "", method, 0)
    /\ UNCHANGED <<isDev, settingsVars, debounceTimers, domVars, welcomeVars>>

-----------------------------------------------------------------------------
(* Specifications *)

\* The tab router, with the frames and timeouts its messages schedule, over
\* the document as it was at mount
Next ==
    \/ \E target \in TargetSections : Mount(target)
    \/ Unmount
    \/ \E tabId \in MessageValues : TabClick(tabId)
    \/ \E target \in TargetSections : SetTargetSection(target)
    \/ \E m \in Messages : HandleMessage(m)
    \/ AnimationFrame
    \/ HighlightTimeout

Spec == Init /\ [][Next]_vars

\* a production build opened without a targetSection
InitScroll == Init /\ ~isDev /\ targetSection = ""

\* The messages that matter to the fallback scroll: one known target, the
\* anchor, a target with no element, an empty target and another kind
ScrollMessages ==
    {m \in Messages : m.value \in {"", "about", "section-x", "nowhere"}}

\* The fallback scroll of one instance, from mount to unmount, while other
\* components render, remove and re-insert the anchor
NextScroll ==
    \/ Unmount
    \/ \E m \in ScrollMessages : HandleMessage(m)
    \/ AnimationFrame
    \/ HighlightTimeout
    \/ \E a \in AnchorIds : RenderAnchor(a)
    \/ \E n \in DOMAIN elements : AttachAnchor(n)
    \/ \E n \in DOMAIN elements : DetachAnchor(n)

SpecScroll == InitScroll /\ [][NextScroll]_vars

\* The navigate messages behind a highlight: to the anchor, and to a known tab
HighlightMessages ==
    {m \in Messages : IsScrollToSettings(m) /\ m.value \in {"about", "section-x"}}

\* The highlight and its decay, under the same changes of the document
NextHighlight ==
    \/ Unmount
    \/ \E m \in HighlightMessages : HandleMessage(m)
    \/ AnimationFrame
    \/ HighlightTimeout
    \/ \E a \in AnchorIds : RenderAnchor(a)
    \/ \E n \in DOMAIN elements : AttachAnchor(n)
    \/ \E n \in DOMAIN elements : DetachAnchor(n)

\* The browser runs every queued animation-frame callback and every timeout
FairScroll ==
    InitScroll /\ [][NextHighlight]_vars
    /\ WF_vars(AnimationFrame) /\ WF_vars(HighlightTimeout)

\* The resize observer and the debounced compact-mode update
NextResize ==
    \/ \E target \in TargetSections : Mount(target)
    \/ Unmount
    \/ \E tabId \in MessageValues : TabClick(tabId)
    \/ \E width \in Widths : Observe(width)
    \/ DebounceFire

\* The timer behind debounce always expires
FairResize ==
    Init /\ [][NextResize]_vars /\ WF_vars(DebounceFire)

\* One instance from mount to unmount, with everything it is sent and
\* everything it has scheduled
NextInputs ==
    \/ Unmount
    \/ \E m \in Messages : HandleMessage(m)
    \/ AnimationFrame
    \/ HighlightTimeout
    \/ \E width \in Widths : Observe(width)
    \/ DebounceFire

SpecInputs == Init /\ [][NextInputs]_vars

\* The remote calls of both views, with the steps that lead to the debug tab
NextRpc ==
    \/ \E target \in TargetSections : Mount(target)
    \/ Unmount
    \/ \E tabId \in MessageValues : TabClick(tabId)
    \/ \E target \in TargetSections : SetTargetSection(target)
    \/ Login
    \/ ShowApiOptions
    \/ \E err \in ApiErrors : ConfigChanged(err)
    \/ Submit
    \/ ResetState
    \/ \E method \in Methods : RpcResolve(method)
    \/ \E method \in Methods : RpcReject(method)

SpecRpc == Init /\ [][NextRpc]_vars

-----------------------------------------------------------------------------
(* Properties *)

\* The section ids of the tab registry, and the component of each
RegistryIds ==
    {"api-config", "features", "browser", "terminal", "debug", "general", "about"}

SectionOf(id) ==
    CASE id = "api-config" -> "ApiConfigurationSection"
      [] id = "features" -> "FeatureSettingsSection"
      [] id = "browser" -> "BrowserSettingsSection"
      [] id = "terminal" -> "TerminalSettingsSection"
      [] id = "debug" -> "DebugSection"
      [] id = "general" -> "GeneralSettingsSection"
      [] id = "about" -> "AboutSection"

\* the last step called setActiveTab(id): a tab click, or a targetSection
\* given at mount or changed later
SetActiveCalled(id) ==
    /\ last.op \in {"click", "target", "mount"}
    /\ last.id = id

\* C1: for every section id of the registry, once setActive(id) has run (a
\* tab click, or a targetSection), the resolved active content is the
\* component mapped to that id, whatever happened before.
C1_ResolveAfterSetActive ==
    \A id \in RegistryIds :
        SetActiveCalled(id) =>
            /\ activeTab = id
            /\ ActiveContent(activeTab).type = SectionOf(id)

\* a click on "about" after a targetSection of "debug" and a navigate message
\* that went to the fallback path
C1_Witness ==
    /\ last.op = "click"
    /\ last.id = "about"
    /\ targetSection = "debug"
    /\ frames # << >>
    /\ ActiveContent(activeTab).type = "AboutSection"

\* C2: a navigate message whose target is a known section id sets the active
\* tab to that target from any state, and queues no fallback scroll.
C2_KnownTargetActivates ==
    [][(last'.op = "message" /\ last'.kind = "navigate" /\ last'.id \in RegistryIds)
        => (activeTab' = last'.id /\ frames' = frames /\ timers' = timers
            /\ elements' = elements /\ scrolled' = scrolled)]_vars

\* a navigate message to "terminal" arrived while another tab was targeted
C2_Witness ==
    /\ last.op = "message"
    /\ last.kind = "navigate"
    /\ last.id = "terminal"
    /\ activeTab = "terminal"
    /\ targetSection = "about"
    /\ frames = << >>

\* a node with this id is in the document
HasAnchor(id) == \E n \in anchors : elements[n].id = id

\* the node with this id in the document
AnchorOf(id) == CHOOSE n \in anchors : elements[n].id = id

\* C3: a navigate message whose target is no known section id and has no
\* anchor in the document when its frame runs changes neither the active
\* tab, nor compact mode, nor any highlight, and starts no timer; a message
\* of another kind or with an empty target changes nothing at all.
C3_UnknownTargetNoOp ==
    [][/\ (last'.op = "message" /\ (last'.kind = "other" \/ last'.id = ""))
            => UNCHANGED <<settingsVars, debounceTimers, domVars>>
       /\ (last'.op = "message" /\ last'.kind = "navigate"
           /\ last'.id # "" /\ last'.id \notin RegistryIds)
            => UNCHANGED <<settingsVars, debounceTimers, timers, elements, scrolled>>
       /\ (last'.op = "frame" /\ ~HasAnchor(last'.id))
            => UNCHANGED <<settingsVars, debounceTimers, timers, elements, scrolled>>
      ]_vars

\* the frame of a navigate message to "nowhere" ran and found no element,
\* while an earlier highlight was still pending
C3_Witness ==
    /\ last.op = "frame"
    /\ last.kind = "miss"
    /\ last.id = "nowhere"
    /\ timers # << >>
    /\ \E n \in anchors : elements[n].backgroundColor = HighlightColor

\* C4 (as claimed): setActive(id) sets the active tab to any non-empty id and
\* leaves it alone for an empty one, and an active tab that is no known
\* section id resolves to null.
C4_UnknownResolvesNull ==
    /\ \A id \in TargetSections \cup MessageValues :
          (last.op \in {"click", "target"} /\ last.id = id /\ id # "") => activeTab = id
    /\ (mounted /\ activeTab \notin RegistryIds) => ActiveContent(activeTab) = Null

\* C10: the hidden flag only filters the rendered tabs: with the debug tab
\* hidden, a navigate message or a targetSection naming "debug" still
\* activates it and resolves to the debug section.
C10_HiddenTabStillRoutes ==
    /\ ~isDev => "debug" \notin VisibleTabIds(SETTINGS_TABS)
    /\ (/\ \/ last.op = "message" /\ last.kind = "navigate"
           \/ last.op \in {"target", "mount"}
        /\ last.id = "debug")
       => (activeTab = "debug" /\ ActiveContent(activeTab).type = "DebugSection")

\* outside dev mode, a navigate message to "debug" has activated the debug tab
C10_Witness ==
    /\ ~isDev
    /\ mounted
    /\ last.op = "message"
    /\ last.kind = "navigate"
    /\ last.id = "debug"
    /\ activeTab = "debug"
    /\ "debug" \notin VisibleTabIds(SETTINGS_TABS)

\* compact mode as the claim states it: on below the threshold, off above it
ExpectedCompact(w) == w < 500

\* C5: while the view stays mounted, a width observation that no other
\* observation follows leads, through the 100 ms debounce, to compact mode
\* on for a width below the threshold and off for one above it; when the
\* debounced update follows a burst, the last observed width decides.
C5_DebouncedCompact ==
    /\ \A w \in {480, 600} :
          (mounted /\ last.op = "observe" /\ last.width = w)
          ~> \/ ~mounted
             \/ (last.op = "observe" /\ last.width # w)
             \/ (/\ last.op = "debounce" /\ last.kind = "live" /\ last.width = w
                 /\ isCompactMode = ExpectedCompact(w))
    /\ [][(last.op = "observe" /\ last'.op = "debounce" /\ last'.kind = "live")
            => (/\ last'.width = last.width
                /\ last.width # 500 => isCompactMode' = ExpectedCompact(last.width))]_vars
    /\ [](\A i \in DOMAIN debounceTimers : debounceTimers[i].wait = 100)

\* the debounced update of an observation of 600 has switched compact mode off
C5_Witness ==
    /\ mounted
    /\ last.op = "debounce"
    /\ last.kind = "live"
    /\ last.width = 600
    /\ ~isCompactMode

\* C6: delivering the same inbound message, or the same width observation,
\* twice in a row leaves the active tab and compact mode as they were after
\* the first delivery; a debounced update leaves what its width alone decides.
C6_Idempotent ==
    [][/\ (last'.again /\ last'.op \in {"message", "observe"})
            => (activeTab' = activeTab /\ isCompactMode' = isCompactMode)
       /\ (last'.again /\ last'.op = "observe")
            => debounceTimers' = debounceTimers
       /\ (last'.op = "debounce" /\ last'.kind = "live" /\ last'.width # 500)
            => isCompactMode' = ExpectedCompact(last'.width)
      ]_vars

\* the navigate message to "general" was delivered twice in a row
C6_Witness ==
    /\ last.op = "message"
    /\ last.kind = "navigate"
    /\ last.id = "general"
    /\ last.again
    /\ activeTab = "general"

\* C7 (as claimed): once the view has unmounted, no debounce timer, highlight
\* timeout or animation-frame callback is pending, and none of them nor the
\* resize observer runs.
C7_CleanupOnUnmount ==
    ~mounted =>
        /\ debounceTimers = << >>
        /\ frames = << >>
        /\ timers = << >>
        /\ last.op \notin {"debounce", "frame", "timeout", "observe"}

\* interface state of both views
uiVars == <<activeTab, isCompactMode, showApiOptions, apiErrorMessage>>

\* C8: a rejected remote call is logged with its handler's text and is not
\* issued again, and neither issuing the call nor its rejection changes the
\* interface state.
C8_LogAndContinue ==
    [][/\ last'.op = "call" => UNCHANGED uiVars
       /\ last'.op = "reject"
            => /\ UNCHANGED uiVars
               /\ InFlight' = InFlight - 1
               /\ Len(log') = Len(log) + 1
               /\ log'[Len(log')] \in
                    {"Failed to get login URL:",
                     "Failed to update API configuration or complete welcome view:",
                     "Failed to reset state:"}
               /\ SubSeq(log', 1, Len(log)) = log
      ]_vars

\* a resetState call issued from the debug tab was rejected and logged
C8_Witness ==
    /\ last.op = "reject"
    /\ last.id = "resetState"
    /\ activeTab = "debug"
    /\ log = << "Failed to reset state:" >>
    /\ InFlight = 0

\* C9: the frame of a navigate message whose target is an anchor of the
\* document scrolls it into view and highlights it, the highlight is
\* eventually set back to transparent by a 1200 ms timeout, and none of
\* these steps changes the active tab.
C9_FallbackHighlightDecays ==
    /\ \A n \in 1..MaxNodes :
          (n \in DOMAIN elements /\ elements[n].backgroundColor = HighlightColor)
          ~> (n \in DOMAIN elements /\ elements[n].backgroundColor = "transparent")
    /\ [][/\ (last'.op = "frame" /\ HasAnchor(last'.id))
               => /\ scrolled' = AnchorOf(last'.id)
                  /\ elements'[AnchorOf(last'.id)].backgroundColor = HighlightColor
                  /\ timers' = Append(timers, [el |-> AnchorOf(last'.id), delay |-> 1200])
          /\ (last'.op = "timeout")
               => (/\ elements'[last'.node].backgroundColor = "transparent"
                   /\ last'.width = 1200)
          /\ (\/ last'.op \in {"frame", "timeout"}
              \/ (last'.op = "message" /\ last'.id \notin RegistryIds))
               => activeTab' = activeTab
         ]_vars

\* the anchor was highlighted, removed and rendered anew, the new node was
\* highlighted too, and the timeout of the old node has run: the node in the
\* document is still highlighted, the old one is transparent
C9_Witness ==
    /\ last.op = "timeout"
    /\ last.node \notin anchors
    /\ elements[last.node].backgroundColor = "transparent"
    /\ \E n \in anchors :
          /\ elements[n].id = last.id
          /\ elements[n].backgroundColor = HighlightColor
          /\ scrolled = n
    /\ timers # << >>

====
